---------------------------- MODULE Spec2Model ----------------------------
(***************************************************************************)
(* Model of pumpkin-world/src/chunk.rs: the chunk store (ChunkBlocks), the *)
(* section decoder (ChunkData::from_bytes) and the wire codec (the speedy  *)
(* Writable / Readable impls of ChunkData).                                *)
(*                                                                         *)
(* Representation notes.                                                   *)
(*  - An i64 of a packed LongArray is the tuple of its four 16-bit limbs,  *)
(*    least significant first (TLC integers are 32 bits wide).             *)
(*  - Box<[BlockId; CHUNK_VOLUME]> is held as rows of CHUNK_AREA elements: *)
(*    element o of the array is row o \div CHUNK_AREA, column              *)
(*    o % CHUNK_AREA (ArrayGet / ArrayPut address it by linear offset o).  *)
(*  - A BlockId is its u16 `data` field.                                   *)
(***************************************************************************)
EXTENDS Integers, Sequences, FiniteSets, TLC

(***************************************************************************)
(* Bounds of the model.                                                    *)
(***************************************************************************)
\* number of 16-block-high subchunks of the world: WORLD_HEIGHT / 16
NumSubchunks == 2
\* largest number of sections the parsed chunk carries
MaxSections == 2
\* largest palette length the bit-width computation is applied to
MaxPaletteLen == 300
\* the set_block calls one store serves
MaxSetCalls == 1
\* the iter_subchunks calls made on one store
MaxIterCalls == 2

(***************************************************************************)
(* Constants of chunk.rs.                                                  *)
(***************************************************************************)
WORLD_HEIGHT == 16 * NumSubchunks
CHUNK_AREA == 16 * 16
SUBCHUNK_VOLUME == CHUNK_AREA * 16
CHUNK_VOLUME == CHUNK_AREA * WORLD_HEIGHT

Max(a, b) == IF a >= b THEN a ELSE b

None == [tag |-> "None"]
Some(v) == [tag |-> "Some", value |-> v]
Ok(v) == [tag |-> "Ok", value |-> v]
Err(e) == [tag |-> "Err", error |-> e]
Panic(m) == [tag |-> "Panic", message |-> m]
\* a WorldError value
WorldError(kind, detail) == [kind |-> kind, detail |-> detail]
\* control flow of a loop body or a guard
Flow(name) == [tag |-> name]

(***************************************************************************)
(* BlockId and the block registry (crate::block).                          *)
(***************************************************************************)
\* BlockId::default(): air
BlockIdDefault == 0

\* BlockId::get_id / BlockId::from_id on the u16 payload
get_id(block) == block
from_id(id) == id

\* the block names the registry knows, in state-id order
RegistryNames ==
  << "minecraft:air", "minecraft:stone", "minecraft:granite",
     "minecraft:polished_granite", "minecraft:diorite",
     "minecraft:polished_diorite", "minecraft:andesite",
     "minecraft:polished_andesite", "minecraft:grass_block",
     "minecraft:dirt", "minecraft:coarse_dirt", "minecraft:podzol",
     "minecraft:cobblestone", "minecraft:oak_planks",
     "minecraft:spruce_planks", "minecraft:birch_planks",
     "minecraft:jungle_planks", "minecraft:acacia_planks" >>

\* BlockId::new(name, properties): the registry's answer for a palette entry
BlockIdNew(entry) ==
  IF \E p \in 1..Len(RegistryNames) : RegistryNames[p] = entry.name
  THEN Ok(10 * ((CHOOSE p \in 1..Len(RegistryNames) : RegistryNames[p] = entry.name) - 1)
          + (IF entry.properties = None THEN 0 ELSE 1))
  ELSE Err(WorldError("BlockIdentifierNotFound", entry.name))

(***************************************************************************)
(* Coordinates (crate::coordinates).                                       *)
(***************************************************************************)
\* Height::from_absolute / Height::get_absolute
HeightFromAbsolute(a) == [absolute |-> a]
HeightGetAbsolute(h) == h.absolute

\* the coordinates the constructors of ChunkRelativeBlockCoordinates accept
ValidCoordinates ==
  [x : 0..15, z : 0..15, y : {HeightFromAbsolute(a) : a \in 0..(WORLD_HEIGHT - 1)}]

(***************************************************************************)
(* ChunkBlocks.                                                            *)
(***************************************************************************)
NumRows == CHUNK_VOLUME \div CHUNK_AREA

\* [value; CHUNK_VOLUME]
ArrayFilled(value) == [r \in 0..(NumRows - 1) |-> [c \in 0..(CHUNK_AREA - 1) |-> value]]
\* array[o]
ArrayGet(array, o) == array[o \div CHUNK_AREA][o % CHUNK_AREA]
\* array[o] = value
ArrayPut(array, o, value) == [array EXCEPT ![o \div CHUNK_AREA][o % CHUNK_AREA] = value]

\* a sequence given as a function on 1..n, as the tuple of its elements
Tuple(f) == SubSeq(f, 1, Len(f))

\* the i64 of a small non-negative integer (below 65536)
I64(v) == << v, 0, 0, 0 >>
\* the i64 of minus a small positive integer (at most 65536)
I64Neg(v) == << 65536 - v, 65535, 65535, 65535 >>

\* impl Default for ChunkHeightmaps: LongArray::new(vec![0; 37]) twice
ChunkHeightmapsDefault ==
  [motion_blocking |-> Tuple([i \in 1..37 |-> I64(0)]),
   world_surface |-> Tuple([i \in 1..37 |-> I64(0)])]

empty_with_default_heightmap(heightmap) ==
  [blocks |-> ArrayFilled(BlockIdDefault), heightmap |-> ChunkHeightmapsDefault]

\* ChunkBlocks::empty_with_heightmap
empty_with_heightmap(heightmap) ==
  [blocks |-> ArrayFilled(BlockIdDefault), heightmap |-> heightmap]

\* impl Default for ChunkBlocks
ChunkBlocksDefault ==
  [blocks |-> ArrayFilled(BlockIdDefault), heightmap |-> ChunkHeightmapsDefault]

convert_index_swapped(index) ==
  HeightGetAbsolute(index.y) * CHUNK_AREA + index.x * 16 + index.z

\* ChunkBlocks::convert_index
convert_index(index) ==
  HeightGetAbsolute(index.y) * CHUNK_AREA + index.z * 16 + index.x

(***************************************************************************)
(* 64-bit integer operations used by from_bytes.                           *)
(***************************************************************************)
RECURSIVE BitLength(_)
\* number of bits of a non-negative integer: 64 - leading_zeros for it
BitLength(v) == IF v = 0 THEN 0 ELSE 1 + BitLength(v \div 2)

\* i64::leading_zeros
leading_zeros(v) == IF v < 0 THEN 0 ELSE 64 - BitLength(v)

\* limb q of a 64-bit word; past the word, the limb the sign bit fills
Limb(word, q) ==
  IF q < 4 THEN word[q + 1] ELSE IF word[4] >= 32768 THEN 65535 ELSE 0

\* (word >> shift) & ((1 << ones) - 1) for ones <= 16: the low `ones` bits
\* of the arithmetic right shift of word
ShiftAndMask(word, shift, ones) ==
  LET q == shift \div 16
      r == shift % 16
  IN ((Limb(word, q) \div (2 ^ r)) + (Limb(word, q + 1) % (2 ^ r)) * (2 ^ (16 - r)))
       % (2 ^ ones)

block_bit_size_minimum_one(palette_len) ==
  LET size == 64 - leading_zeros(palette_len - 1)
  IN Max(1, size)

\* let block_bit_size = { let size = 64 - (palette.len() as i64 - 1).leading_zeros(); max(4, size) }
block_bit_size(palette_len) ==
  LET size == 64 - leading_zeros(palette_len - 1)
  IN Max(4, size)

\* let blocks_in_pallete = 64 / block_bit_size
blocks_in_pallete(palette_len) == 64 \div block_bit_size(palette_len)

\* let mask = (1 << block_bit_size) - 1, as the number of low one-bits of
\* the mask.  A shift by 64 overflows: with overflow checks the build
\* panics, without them the shift amount wraps to 0 and the mask is 0.
mask_ones(palette_len, overflow_checks) ==
  IF block_bit_size(palette_len) < 64 THEN Ok(block_bit_size(palette_len))
  ELSE IF overflow_checks THEN Panic("attempt to shift left with overflow")
  ELSE Ok(0)

index_msb_first(block, i, bit_size, ones) ==
  ShiftAndMask(block, ((64 \div bit_size) - 1 - i) * bit_size, ones)

\* let index = (block >> (i * block_bit_size)) & mask
index_of(block, i, bit_size, ones) ==
  ShiftAndMask(block, i * bit_size, ones)

(***************************************************************************)
(* The inputs of from_bytes: what fastnbt makes of the chunk's bytes.      *)
(***************************************************************************)
\* enum ChunkStatus
ChunkStatus ==
  { "minecraft:empty", "minecraft:structure_starts",
    "minecraft:structure_references", "minecraft:biomes", "minecraft:noise",
    "minecraft:surface", "minecraft:carvers", "minecraft:liquid_carvers",
    "minecraft:features", "minecraft:initialize_light", "minecraft:spawn",
    "minecraft:heightmaps", "minecraft:full" }
Full == "minecraft:full"

\* fastnbt::from_bytes::<ChunkStatus>(&chunk_data)
StatusOutcomes == {Err("missing field Status")} \cup {Ok(st) : st \in ChunkStatus}

\* struct PaletteEntry
PaletteEntry(name) == [name |-> name, properties |-> None]
PaletteEntryWith(name, properties) == [name |-> name, properties |-> Some(properties)]

AirStone == << PaletteEntry("minecraft:air"), PaletteEntry("minecraft:stone") >>
Palette17 == Tuple([i \in 1..17 |-> PaletteEntry(RegistryNames[i])])
Unknown == PaletteEntry("mod:unknown_block")

RECURSIVE LimbOfBits(_, _, _)
\* the 16-bit limb whose bit b is bits[from + b], from bit b on
LimbOfBits(bits, from, b) ==
  IF b = 16 THEN 0 ELSE bits[from + b] + 2 * LimbOfBits(bits, from, b + 1)
\* the word whose bit b is bits[b], for b in 0..63
WordOfBits(bits) == << LimbOfBits(bits, 0, 0), LimbOfBits(bits, 16, 0),
                       LimbOfBits(bits, 32, 0), LimbOfBits(bits, 48, 0) >>

\* word k (from 0) of a packed array of bit width w whose t-th field holds
\* t % n; the bits above the last whole field are set
CycleWord(k, n, w) ==
  WordOfBits([b \in 0..63 |->
               IF b \div w < 64 \div w
               THEN (((k * (64 \div w) + b \div w) % n) \div (2 ^ (b % w))) % 2
               ELSE 1])
\* a LongArray of len such words
Cycle(len, n, w) == Tuple([k \in 1..len |-> CycleWord(k - 1, n, w)])
\* a LongArray of len words, every bit of every word equal to b
Uniform(len, b) == Tuple([k \in 1..len |-> WordOfBits([i \in 0..63 |-> b])])

\* struct ChunkSection / struct ChunkSectionBlockStates: the sections the
\* source data is made of, by kind
Sections ==
  [ no_block_states |->
      [y |-> 20, block_states |-> None],
    palette_only |->
      [y |-> -5, block_states |-> Some([data |-> None,
         palette |-> << PaletteEntryWith("minecraft:grass_block", "snowy=true") >>])],
    palette_only_unknown |->
      [y |-> 3, block_states |-> Some([data |-> None, palette |-> << Unknown >>])],
    air_stone |->
      [y |-> 1, block_states |-> Some([data |-> Some(Cycle(SUBCHUNK_VOLUME \div 16, 2, 4)),
         palette |-> AirStone])],
    seventeen |->
      [y |-> 0, block_states |-> Some([data |-> Some(Cycle(343, 17, 5)),
         palette |-> Palette17])],
    short |->
      [y |-> 2, block_states |-> Some([data |-> Some(Cycle(1, 2, 4)),
         palette |-> AirStone])],
    empty_data |->
      [y |-> 4, block_states |-> Some([data |-> Some(<< >>),
         palette |-> << PaletteEntry("minecraft:stone") >>])],
    unknown_unreferenced |->
      [y |-> -1, block_states |-> Some([data |-> Some(Uniform(SUBCHUNK_VOLUME \div 16, 0)),
         palette |-> AirStone \o << Unknown >>])],
    index_past_palette |->
      [y |-> -2, block_states |-> Some([data |-> Some(Uniform(SUBCHUNK_VOLUME \div 16, 1)),
         palette |-> AirStone])],
    empty_palette |->
      [y |-> -3, block_states |-> Some([data |-> Some(Uniform(1, 0)), palette |-> << >>])] ]

Section(kind) == Sections[kind]

SectionKinds == DOMAIN Sections

\* struct ChunkHeightmaps found in the source data
SourceHeightmaps ==
  << ChunkHeightmapsDefault,
     [motion_blocking |-> Tuple([i \in 1..37 |-> << 1000 * i, i, 37 - i, 32768 + i >>]),
      world_surface |-> Tuple([i \in 1..37 |-> IF i % 2 = 0 THEN I64(i) ELSE I64Neg(i)])] >>

\* the at argument
Positions == << [x |-> 0, z |-> 0], [x |-> -3, z |-> 7] >>

\* fastnbt::from_bytes::<ChunkNbt>(chunk_data.as_slice()), sections apart
NbtOutcomes(i) ==
  {Err("missing field sections"), Ok([heightmaps |-> SourceHeightmaps[i]])}

(***************************************************************************)
(* State.                                                                  *)
(***************************************************************************)
VARIABLES
  pc,             \* where from_bytes stands: "idle", "sections", "done"
  at,             \* the position argument of the call
  status,         \* outcome of the status parse of the call
  nbt,            \* outcome of the full parse of the call (None: not parsed)
  blocks,         \* from_bytes' local `blocks` (None before it is built and after it is moved out)
  block_index,    \* from_bytes' local `block_index`
  taken,          \* number of sections the section loop has taken
  section,        \* kind of the section taken last ("none": none yet)
  start,          \* block_index when that section was taken
  writes,         \* linear offsets that section wrote, in order
  registry_calls, \* number of BlockId::new calls so far
  result,         \* what from_bytes returned (None: still running)
  chunk,          \* the ChunkData at hand: returned by from_bytes, or the
                  \* one the store operations and the codec work on
  op,             \* the last store operation or bit-width computation
  set_calls,      \* how many set_block calls the store has served
  subchunks,      \* the iterator of the last iter_subchunks call: the items
                  \* it has yielded and whether it has ended (None: no call)
  bytes,          \* what write_to wrote (None: nothing yet)
  decoded         \* what read_from made of bytes (None: not run)

vars ==
  << pc, at, status, nbt, blocks, block_index, taken, section, start, writes,
     registry_calls, result, chunk, op, set_calls, subchunks, bytes,
     decoded >>

(***************************************************************************)
(* ChunkBlocks operations.                                                 *)
(***************************************************************************)
\* ChunkBlocks::get_block
get_block(self, position) ==
  LET o == convert_index(position)
  IN IF o >= CHUNK_VOLUME THEN Panic("index out of bounds")
     ELSE Ok([value |-> ArrayGet(self.blocks, o), offset |-> o])

set_block_returning_new(self, position, block) ==
  LET o == convert_index(position)
  IN IF o >= CHUNK_VOLUME THEN Panic("index out of bounds")
     ELSE Ok([self |-> [self EXCEPT !.blocks = ArrayPut(self.blocks, o, block)],
              value |-> block,
              offset |-> o])

\* ChunkBlocks::set_block_no_heightmap_update: std::mem::replace on the
\* addressed element; `offset` reports the element addressed
set_block_no_heightmap_update(self, position, block) ==
  LET o == convert_index(position)
  IN IF o >= CHUNK_VOLUME THEN Panic("index out of bounds")
     ELSE Ok([self |-> [self EXCEPT !.blocks = ArrayPut(self.blocks, o, block)],
              value |-> ArrayGet(self.blocks, o),
              offset |-> o])

\* ChunkBlocks::set_block
set_block(self, position, block) ==
  set_block_no_heightmap_update(self, position, block)

\* impl Index<ChunkRelativeBlockCoordinates> for ChunkBlocks
index(self, position) ==
  LET o == convert_index(position)
  IN IF o >= CHUNK_VOLUME THEN Panic("index out of bounds")
     ELSE Ok([value |-> ArrayGet(self.blocks, o), offset |-> o])

(***************************************************************************)
(* from_bytes: unpacking one section.                                      *)
(***************************************************************************)
CursorCoordinatesWithinSubchunk(cursor) ==
  [z |-> (cursor % CHUNK_AREA) \div 16,
   y |-> HeightFromAbsolute((cursor \div CHUNK_AREA) % 16),
   x |-> cursor % 16]

\* the coordinates from_bytes builds from block_index
CursorCoordinates(cursor) ==
  [z |-> (cursor % CHUNK_AREA) \div 16,
   y |-> HeightFromAbsolute((cursor \div CHUNK_AREA) % 65536),
   x |-> cursor % 16]

\* one pass of the body of `for i in 0..blocks_in_pallete`, with the loop
\* state st = [blocks, block_index, writes, flow]; flow is Next while the
\* loops go on, Break after break 'block_loop, or the panic that ended them
InnerBodyNoBreak(st, block, i, c) ==
  LET idx == index_of(block, i, c.block_bit_size, c.mask_ones)
  IN IF idx >= Len(c.palette)
     THEN [st EXCEPT !.flow = Panic("palette index out of bounds")]
     ELSE LET set == set_block_no_heightmap_update(
                       st.blocks, CursorCoordinates(st.block_index), c.palette[idx + 1])
          IN IF set.tag = "Panic"
             THEN [st EXCEPT !.flow = set]
             ELSE [blocks |-> set.value.self,
                   block_index |-> st.block_index + 1,
                   writes |-> Append(st.writes, set.value.offset),
                   flow |-> Flow("Next")]

InnerBody(st, block, i, c) ==
  LET idx == index_of(block, i, c.block_bit_size, c.mask_ones)
  IN IF idx >= Len(c.palette)
     THEN [st EXCEPT !.flow = Panic("palette index out of bounds")]
     ELSE LET set == set_block_no_heightmap_update(
                       st.blocks, CursorCoordinates(st.block_index), c.palette[idx + 1])
          IN IF set.tag = "Panic"
             THEN [st EXCEPT !.flow = set]
             ELSE [blocks |-> set.value.self,
                   block_index |-> st.block_index + 1,
                   writes |-> Append(st.writes, set.value.offset),
                   flow |-> IF (st.block_index + 1) % SUBCHUNK_VOLUME = 0
                            THEN Flow("Break") ELSE Flow("Next")]

RECURSIVE InnerLoop(_, _, _, _, _)
\* for i in 0..blocks_in_pallete { ... }: the passes lo..hi in order (a
\* range is walked by halves to keep the evaluation shallow; the passes
\* still run first to last, and none runs once flow has left Next)
InnerLoop(st, block, lo, hi, c) ==
  IF lo > hi THEN st
  ELSE IF lo = hi THEN InnerBody(st, block, lo, c)
  ELSE LET after == InnerLoop(st, block, lo, (lo + hi) \div 2, c)
       IN IF after.flow # Flow("Next") THEN after
          ELSE InnerLoop(after, block, (lo + hi) \div 2 + 1, hi, c)

RECURSIVE BlockLoop(_, _, _, _)
\* 'block_loop: for block in block_data.iter() { ... } over the words
\* lo..hi in order, walked by halves as above
BlockLoop(st, lo, hi, c) ==
  IF lo > hi THEN st
  ELSE IF lo = hi THEN InnerLoop(st, c.block_data[lo], 0, c.blocks_in_pallete - 1, c)
  ELSE LET after == BlockLoop(st, lo, (lo + hi) \div 2, c)
       IN IF after.flow # Flow("Next") THEN after
          ELSE BlockLoop(after, (lo + hi) \div 2 + 1, hi, c)

RECURSIVE CollectPaletteSkipUnknown(_, _, _)
RECURSIVE CollectPalette(_, _, _)
CollectPaletteSkipUnknown(entries, i, acc) ==
  IF i > Len(entries) THEN [palette |-> Ok(acc), calls |-> Len(entries)]
  ELSE LET id == BlockIdNew(entries[i])
       IN IF id.tag = "Err" THEN CollectPaletteSkipUnknown(entries, i + 1, acc)
          ELSE CollectPaletteSkipUnknown(entries, i + 1, Append(acc, id.value))

\* block_states.palette.iter().map(BlockId::new).collect::<Result<Vec<_>, _>>()
\* from entry i on: [palette, calls] with the ids resolved so far, or the
\* first error, and the number of entries handed to the registry
CollectPalette(entries, i, acc) ==
  IF i > Len(entries) THEN [palette |-> Ok(acc), calls |-> Len(entries)]
  ELSE LET id == BlockIdNew(entries[i])
       IN IF id.tag = "Err" THEN [palette |-> id, calls |-> i]
          ELSE CollectPalette(entries, i + 1, Append(acc, id.value))

SectionBodyPaletteOnlyStays(self, cursor, sec, overflow_checks) ==
  IF sec.block_states = None
  THEN [blocks |-> self, block_index |-> cursor, writes |-> << >>, calls |-> 0,
        flow |-> Flow("Continue")]
  ELSE
    LET block_states == sec.block_states.value
        collected == CollectPalette(block_states.palette, 1, << >>)
    IN IF collected.palette.tag = "Err"
       THEN [blocks |-> self, block_index |-> cursor, writes |-> << >>,
             calls |-> collected.calls, flow |-> collected.palette]
       ELSE IF block_states.data = None
       THEN [blocks |-> self, block_index |-> cursor,
             writes |-> << >>, calls |-> collected.calls, flow |-> Flow("Continue")]
       ELSE
         LET palette == collected.palette.value
             block_data == block_states.data.value
             mask == mask_ones(Len(palette), overflow_checks)
         IN IF mask.tag = "Panic"
            THEN [blocks |-> self, block_index |-> cursor, writes |-> << >>,
                  calls |-> collected.calls, flow |-> mask]
            ELSE
              LET c == [palette |-> palette,
                        block_data |-> block_data,
                        block_bit_size |-> block_bit_size(Len(palette)),
                        blocks_in_pallete |-> blocks_in_pallete(Len(palette)),
                        mask_ones |-> mask.value]
                  st == BlockLoop([blocks |-> self, block_index |-> cursor,
                                   writes |-> << >>, flow |-> Flow("Next")],
                                  1, Len(block_data), c)
              IN [blocks |-> st.blocks, block_index |-> st.block_index,
                  writes |-> st.writes, calls |-> collected.calls,
                  flow |-> IF st.flow \in {Flow("Next"), Flow("Break")}
                           THEN Flow("Continue") ELSE st.flow]

SectionBodyAbsentAdvances(self, cursor, sec, overflow_checks) ==
  IF sec.block_states = None
  THEN [blocks |-> self, block_index |-> cursor + SUBCHUNK_VOLUME, writes |-> << >>,
        calls |-> 0, flow |-> Flow("Continue")]
  ELSE
    LET block_states == sec.block_states.value
        collected == CollectPalette(block_states.palette, 1, << >>)
    IN IF collected.palette.tag = "Err"
       THEN [blocks |-> self, block_index |-> cursor, writes |-> << >>,
             calls |-> collected.calls, flow |-> collected.palette]
       ELSE IF block_states.data = None
       THEN [blocks |-> self, block_index |-> cursor + SUBCHUNK_VOLUME,
             writes |-> << >>, calls |-> collected.calls, flow |-> Flow("Continue")]
       ELSE
         LET palette == collected.palette.value
             block_data == block_states.data.value
             mask == mask_ones(Len(palette), overflow_checks)
         IN IF mask.tag = "Panic"
            THEN [blocks |-> self, block_index |-> cursor, writes |-> << >>,
                  calls |-> collected.calls, flow |-> mask]
            ELSE
              LET c == [palette |-> palette,
                        block_data |-> block_data,
                        block_bit_size |-> block_bit_size(Len(palette)),
                        blocks_in_pallete |-> blocks_in_pallete(Len(palette)),
                        mask_ones |-> mask.value]
                  st == BlockLoop([blocks |-> self, block_index |-> cursor,
                                   writes |-> << >>, flow |-> Flow("Next")],
                                  1, Len(block_data), c)
              IN [blocks |-> st.blocks, block_index |-> st.block_index,
                  writes |-> st.writes, calls |-> collected.calls,
                  flow |-> IF st.flow \in {Flow("Next"), Flow("Break")}
                           THEN Flow("Continue") ELSE st.flow]

\* the body of `for section in chunk_data.sections.into_iter()` for one
\* section: the locals afterwards, the offsets written, the registry calls
\* made, and flow: Continue, the error returned by ?, or the panic
SectionBody(self, cursor, sec, overflow_checks) ==
  IF sec.block_states = None
  THEN [blocks |-> self, block_index |-> cursor, writes |-> << >>, calls |-> 0,
        flow |-> Flow("Continue")]
  ELSE
    LET block_states == sec.block_states.value
        collected == CollectPalette(block_states.palette, 1, << >>)
    IN IF collected.palette.tag = "Err"
       THEN [blocks |-> self, block_index |-> cursor, writes |-> << >>,
             calls |-> collected.calls, flow |-> collected.palette]
       ELSE IF block_states.data = None
       THEN [blocks |-> self, block_index |-> cursor + SUBCHUNK_VOLUME,
             writes |-> << >>, calls |-> collected.calls, flow |-> Flow("Continue")]
       ELSE
         LET palette == collected.palette.value
             block_data == block_states.data.value
             mask == mask_ones(Len(palette), overflow_checks)
         IN IF mask.tag = "Panic"
            THEN [blocks |-> self, block_index |-> cursor, writes |-> << >>,
                  calls |-> collected.calls, flow |-> mask]
            ELSE
              LET c == [palette |-> palette,
                        block_data |-> block_data,
                        block_bit_size |-> block_bit_size(Len(palette)),
                        blocks_in_pallete |-> blocks_in_pallete(Len(palette)),
                        mask_ones |-> mask.value]
                  st == BlockLoop([blocks |-> self, block_index |-> cursor,
                                   writes |-> << >>, flow |-> Flow("Next")],
                                  1, Len(block_data), c)
              IN [blocks |-> st.blocks, block_index |-> st.block_index,
                  writes |-> st.writes, calls |-> collected.calls,
                  flow |-> IF st.flow \in {Flow("Next"), Flow("Break")}
                           THEN Flow("Continue") ELSE st.flow]

(***************************************************************************)
(* from_bytes as a process: entry, one step per section, return.           *)
(***************************************************************************)
StatusGatePassesHeightmaps(outcome) ==
  IF outcome.tag = "Err" THEN Panic("Failed reading chunk status.")
  ELSE IF outcome.value \notin {Full, "minecraft:heightmaps"}
       THEN Err(WorldError("ChunkNotGenerated", "IncompleteGeneration"))
       ELSE Flow("Pass")

\* if from_bytes::<ChunkStatus>(..).expect("Failed reading chunk status.")
\*    != ChunkStatus::Full { return Err(..IncompleteGeneration) }
StatusGate(outcome) ==
  IF outcome.tag = "Err" THEN Panic("Failed reading chunk status.")
  ELSE IF outcome.value # Full
       THEN Err(WorldError("ChunkNotGenerated", "IncompleteGeneration"))
       ELSE Flow("Pass")

\* from_bytes up to the section loop
FromBytes ==
  /\ pc = "idle"
  /\ \E i \in 1..Len(Positions) : \E so \in StatusOutcomes : \E no \in NbtOutcomes(i) :
       /\ at' = Positions[i]
       /\ status' = so
       /\ IF StatusGate(so) # Flow("Pass")
          THEN /\ result' = StatusGate(so)
               /\ pc' = "done"
               /\ UNCHANGED << nbt, blocks, block_index >>
          ELSE /\ nbt' = no
               /\ IF no.tag = "Err"
                  THEN /\ result' = Err(WorldError("ErrorDeserializingChunk", no.error))
                       /\ pc' = "done"
                       /\ UNCHANGED << blocks, block_index >>
                  ELSE /\ blocks' = empty_with_heightmap(no.value.heightmaps)
                       /\ block_index' = 0
                       /\ pc' = "sections"
                       /\ UNCHANGED result
  /\ UNCHANGED << taken, section, start, writes, registry_calls, chunk, op,
                  set_calls, bytes, decoded, subchunks >>

\* whether the build traps integer overflow matters to this section alone
OverflowChoices(kind) ==
  IF /\ Section(kind).block_states # None
     /\ Len(Section(kind).block_states.value.palette) = 0
  THEN BOOLEAN ELSE {FALSE}

\* one iteration of the section loop, over source data of at most limit
\* sections of the given kinds
SectionStep(kinds, limit) ==
  /\ pc = "sections"
  /\ taken < limit
  /\ \E kind \in kinds : \E overflow_checks \in OverflowChoices(kind) :
       LET after == SectionBody(blocks, block_index, Section(kind), overflow_checks)
       IN /\ section' = kind
          /\ start' = block_index
          /\ taken' = taken + 1
          /\ writes' = after.writes
          /\ registry_calls' = registry_calls + after.calls
          /\ IF after.flow = Flow("Continue")
             THEN /\ blocks' = after.blocks
                  /\ block_index' = after.block_index
                  /\ UNCHANGED << pc, result >>
             ELSE /\ blocks' = None
                  /\ block_index' = after.block_index
                  /\ result' = after.flow
                  /\ pc' = "done"
  /\ UNCHANGED << at, status, nbt, chunk, op, set_calls, bytes, decoded, subchunks >>

NextSection == SectionStep(SectionKinds, MaxSections)

\* Ok(ChunkData { blocks, position: at })
Return ==
  /\ pc = "sections"
  /\ chunk' = [blocks |-> blocks, position |-> at]
  /\ blocks' = None
  /\ result' = Ok("ChunkData")
  /\ pc' = "done"
  /\ UNCHANGED << at, status, nbt, block_index, taken, section, start, writes,
                  registry_calls, op, set_calls, bytes, decoded, subchunks >>

\* no from_bytes call has been made
DecoderIdle ==
  /\ at = None
  /\ status = None
  /\ nbt = None
  /\ blocks = None
  /\ block_index = 0
  /\ taken = 0
  /\ section = "none"
  /\ start = 0
  /\ writes = << >>
  /\ registry_calls = 0
  /\ result = None

DecoderVars ==
  << at, status, nbt, blocks, block_index, taken, section, start, writes,
     registry_calls, result >>

InitDecode ==
  /\ pc = "idle"
  /\ DecoderIdle
  /\ chunk = None
  /\ op = None
  /\ set_calls = 0
  /\ subchunks = None
  /\ bytes = None
  /\ decoded = None

NextDecode == FromBytes \/ NextSection \/ Return

SpecDecode == InitDecode /\ [][NextDecode]_vars

\* from_bytes on source data that holds one section more than the store
\* has subchunks: sections with a packed array, with a palette only and
\* without a block-state block
ManySectionKinds == {"no_block_states", "palette_only", "air_stone", "seventeen"}

NextSectionOfMany == SectionStep(ManySectionKinds, NumSubchunks + 1)

NextDecodeMany == FromBytes \/ NextSectionOfMany \/ Return

SpecDecodeMany == InitDecode /\ [][NextDecodeMany]_vars

(***************************************************************************)
(* Properties of from_bytes, checked under SpecDecode.                     *)
(***************************************************************************)
\* the section a step of the loop has just processed carries a block-state
\* block
HasBlockStates(kind) == kind # "none" /\ Section(kind).block_states # None

\* some entry of the section's palette names no block of the registry
HasUnknownEntry(kind) ==
  /\ HasBlockStates(kind)
  /\ \E i \in 1..Len(Section(kind).block_states.value.palette) :
        BlockIdNew(Section(kind).block_states.value.palette[i]).tag = "Err"

\* C3 (subchunk-boundary early termination): the offsets one section writes
\* all lie in the subchunk the cursor stood in when the section began, and
\* a write that brings the cursor to a multiple of SUBCHUNK_VOLUME is the
\* section's last: fields and words after it are not unpacked.
C3_EarlyTermination ==
  /\ \A k \in 1..Len(writes) :
        writes[k] \div SUBCHUNK_VOLUME = start \div SUBCHUNK_VOLUME
  /\ \A k \in 1..(Len(writes) - 1) : (writes[k] + 1) % SUBCHUNK_VOLUME # 0

\* 343 words of twelve 5-bit fields hold 4116 fields: the section stops in
\* the middle of word 342 with 4096 blocks written
C3_Witness ==
  /\ section = "seventeen"
  /\ start = 0
  /\ Len(writes) = SUBCHUNK_VOLUME
  /\ block_index = SUBCHUNK_VOLUME
  /\ Len(Section("seventeen").block_states.value.data.value)
       * blocks_in_pallete(17) > SUBCHUNK_VOLUME

\* C4 (completeness gate): when the status read from the input is not Full,
\* from_bytes returns the IncompleteGeneration error with the full tag tree
\* unparsed, no registry lookup made, no section visited and no ChunkData.
C4_CompletenessGate ==
  (status.tag = "Ok" /\ status.value # Full) =>
    /\ pc = "done"
    /\ result = Err(WorldError("ChunkNotGenerated", "IncompleteGeneration"))
    /\ nbt = None
    /\ registry_calls = 0
    /\ taken = 0
    /\ blocks = None
    /\ chunk = None

C4_Witness ==
  /\ status = Ok("minecraft:heightmaps")
  /\ result = Err(WorldError("ChunkNotGenerated", "IncompleteGeneration"))

\* C5 (unknown block is a hard failure): once the loop has processed a
\* section whose palette holds an entry the registry cannot resolve,
\* referenced by the packed array or not, packed array present or not,
\* from_bytes has returned the registry's error and built no ChunkData, and
\* the store written by earlier sections is gone.
C5_UnknownBlockFails ==
  HasUnknownEntry(section) =>
    /\ pc = "done"
    /\ result.tag = "Err"
    /\ result.error.kind = "BlockIdentifierNotFound"
    /\ writes = << >>
    /\ blocks = None
    /\ chunk = None

\* an entry no field refers to fails the decode after a section was written
C5_Witness ==
  /\ section = "unknown_unreferenced"
  /\ taken = 2
  /\ start = SUBCHUNK_VOLUME
  /\ result = Err(WorldError("BlockIdentifierNotFound", "mod:unknown_block"))

\* bit n (0 the least significant) of a 64-bit word
BitOf(word, n) == (word[(n \div 16) + 1] \div (2 ^ (n % 16))) % 2

RECURSIVE FieldOf(_, _, _)
\* the number whose binary digits are the w bits of word from bit `from`
\* upwards, lowest digit first
FieldOf(word, from, w) ==
  IF w = 0 THEN 0 ELSE BitOf(word, from) + 2 * FieldOf(word, from + 1, w - 1)

\* the id the registry gives entry number idx (from 0) of a section's palette
PaletteId(kind, idx) ==
  BlockIdNew(Section(kind).block_states.value.palette[idx + 1]).value

\* C7 (least-significant-first field extraction): the k-th block a section
\* writes (k from 0) goes to the cursor's k-th position and is the palette
\* entry whose index is field k % entriesPerWord of word k \div
\* entriesPerWord, a field being the w bits from bit j * w upwards; with
\* the palette [air, stone] and fields alternating 0, 1 the even positions
\* of the subchunk hold air and the odd ones stone.
C7_LsbFirstExtraction ==
  (pc = "sections" /\ Len(writes) > 0) =>
    LET n == Len(Section(section).block_states.value.palette)
        data == Section(section).block_states.value.data.value
        w == block_bit_size(n)
        per == 64 \div w
    IN /\ \A k \in 0..(Len(writes) - 1) :
            /\ writes[k + 1] = start + k
            /\ ArrayGet(blocks.blocks, start + k)
                 = PaletteId(section, FieldOf(data[(k \div per) + 1], (k % per) * w, w))
       /\ section = "air_stone" =>
            \A k \in 0..(Len(writes) - 1) :
              ArrayGet(blocks.blocks, start + k)
                = IF k % 2 = 0 THEN BlockIdNew(PaletteEntry("minecraft:air")).value
                  ELSE BlockIdNew(PaletteEntry("minecraft:stone")).value

\* the alternating section has filled the second subchunk
C7_Witness ==
  /\ pc = "sections"
  /\ section = "air_stone"
  /\ start = SUBCHUNK_VOLUME
  /\ Len(writes) = SUBCHUNK_VOLUME
  /\ ArrayGet(blocks.blocks, SUBCHUNK_VOLUME + 1)
       = BlockIdNew(PaletteEntry("minecraft:stone")).value

\* C10 (malformed input is an error): when the status or the tag tree
\* cannot be parsed, from_bytes returns the ErrorDeserializingChunk error
\* with the parser's message, and does not abort.
C10_MalformedInputIsError ==
  (pc = "done" /\ (status.tag = "Err" \/ nbt.tag = "Err")) =>
    /\ result.tag = "Err"
    /\ result.error.kind = "ErrorDeserializingChunk"
    /\ result.error.detail = (IF status.tag = "Err" THEN status.error ELSE nbt.error)
    /\ chunk = None

(***************************************************************************)
(* The bit-width computation of from_bytes on its own: block_bit_size,     *)
(* blocks_in_pallete and mask for one palette length.                      *)
(***************************************************************************)
InitBits ==
  /\ pc = "bits"
  /\ DecoderIdle
  /\ chunk = None
  /\ op = None
  /\ set_calls = 0
  /\ subchunks = None
  /\ bytes = None
  /\ decoded = None

\* lines 233-240 for a palette of palette_len entries
BitWidth ==
  /\ pc = "bits"
  /\ \E palette_len \in 0..MaxPaletteLen : \E overflow_checks \in BOOLEAN :
       op' = [name |-> "bit_width",
              palette_len |-> palette_len,
              block_bit_size |-> block_bit_size(palette_len),
              blocks_in_pallete |-> blocks_in_pallete(palette_len),
              mask |-> mask_ones(palette_len, overflow_checks)]
  /\ UNCHANGED << pc, DecoderVars, chunk, set_calls, bytes, decoded, subchunks >>

NextBits == BitWidth

SpecBits == InitBits /\ [][NextBits]_vars

\* the least k with 2^k >= n, for n >= 1
CeilLog2(n) == CHOOSE k \in 0..16 : 2 ^ k >= n /\ (k = 0 \/ 2 ^ (k - 1) < n)

\* the number whose binary digits are `ones` ones
MaskValue(ones) == (2 ^ ones) - 1

\* the computation was made for a palette of n entries
BitWidthOf(n) == op # None /\ op.name = "bit_width" /\ op.palette_len = n

\* C6 (palette bit width): for a palette of n >= 1 entries the bit width is
\* max(4, ceil(log2 n)), a word holds floor(64 / w) fields and the mask is
\* 2^w - 1; the lengths 1, 2, 16, 17, 256 give the widths 4, 4, 4, 5, 8.
C6_PaletteBitWidth ==
  (op # None /\ op.name = "bit_width" /\ op.palette_len >= 1) =>
    /\ op.block_bit_size = Max(4, CeilLog2(op.palette_len))
    /\ op.blocks_in_pallete * op.block_bit_size <= 64
    /\ (op.blocks_in_pallete + 1) * op.block_bit_size > 64
    /\ op.mask.tag = "Ok"
    /\ MaskValue(op.mask.value) = (2 ^ op.block_bit_size) - 1
    /\ BitWidthOf(1) => op.block_bit_size = 4
    /\ BitWidthOf(2) => op.block_bit_size = 4
    /\ BitWidthOf(16) => op.block_bit_size = 4
    /\ BitWidthOf(17) => op.block_bit_size = 5
    /\ BitWidthOf(256) => op.block_bit_size = 8

\* a palette of 256 entries: the width is 8, above the minimum, and a word
\* holds 8 fields
C6_Witness ==
  /\ BitWidthOf(256)
  /\ op.block_bit_size = 8
  /\ op.blocks_in_pallete = 8

(***************************************************************************)
(* The store on its own: a ChunkData whose blocks are read and written     *)
(* through get_block, set_block, set_block_no_heightmap_update and Index.  *)
(***************************************************************************)
\* the coordinates and blocks the operations are called with
StoreCoordinates ==
  [x : {0, 15}, z : {0, 15},
   y : {HeightFromAbsolute(0), HeightFromAbsolute(WORLD_HEIGHT - 1)}]
    \cup {[x |-> 3, z |-> 5, y |-> HeightFromAbsolute(17)]}
StoreBlocks == {from_id(10), from_id(65535)}

\* the stores the operations start from: the default one, and one whose
\* elements and heightmaps all differ (as a decode leaves it)
InitialStores ==
  {ChunkBlocksDefault,
   [blocks |-> [r \in 0..(NumRows - 1) |-> [c \in 0..(CHUNK_AREA - 1) |->
                 from_id(((r * CHUNK_AREA + c) * 7 + 258) % 65536)]],
    heightmap |-> SourceHeightmaps[2]]}

InitStore ==
  /\ pc = "store"
  /\ DecoderIdle
  /\ \E store \in InitialStores : chunk = [blocks |-> store, position |-> Positions[1]]
  /\ op = None
  /\ set_calls = 0
  /\ subchunks = None
  /\ bytes = None
  /\ decoded = None

\* chunk.blocks.get_block(position)
GetBlock ==
  /\ pc = "store"
  /\ \E position \in StoreCoordinates :
       LET got == get_block(chunk.blocks, position)
       IN /\ got.tag = "Ok"
          /\ op' = [name |-> "get_block", position |-> position, block |-> None,
                    returned |-> got.value.value, offset |-> got.value.offset]
  /\ UNCHANGED << pc, DecoderVars, chunk, set_calls, bytes, decoded, subchunks >>

\* chunk.blocks[position]
IndexBlock ==
  /\ pc = "store"
  /\ \E position \in StoreCoordinates :
       LET got == index(chunk.blocks, position)
       IN /\ got.tag = "Ok"
          /\ op' = [name |-> "index", position |-> position, block |-> None,
                    returned |-> got.value.value, offset |-> got.value.offset]
  /\ UNCHANGED << pc, DecoderVars, chunk, set_calls, bytes, decoded, subchunks >>

\* chunk.blocks.set_block(position, block)
SetBlock ==
  /\ pc = "store"
  /\ set_calls < MaxSetCalls
  /\ \E position \in StoreCoordinates : \E block \in StoreBlocks :
       LET set == set_block(chunk.blocks, position, block)
       IN /\ set.tag = "Ok"
          /\ chunk' = [chunk EXCEPT !.blocks = set.value.self]
          /\ op' = [name |-> "set_block", position |-> position, block |-> Some(block),
                    returned |-> set.value.value, offset |-> set.value.offset]
  /\ set_calls' = set_calls + 1
  /\ UNCHANGED << pc, DecoderVars, bytes, decoded, subchunks >>

\* chunk.blocks.set_block_no_heightmap_update(position, block)
SetBlockNoHeightmapUpdate ==
  /\ pc = "store"
  /\ set_calls < MaxSetCalls
  /\ \E position \in StoreCoordinates : \E block \in StoreBlocks :
       LET set == set_block_no_heightmap_update(chunk.blocks, position, block)
       IN /\ set.tag = "Ok"
          /\ chunk' = [chunk EXCEPT !.blocks = set.value.self]
          /\ op' = [name |-> "set_block_no_heightmap_update", position |-> position,
                    block |-> Some(block),
                    returned |-> set.value.value, offset |-> set.value.offset]
  /\ set_calls' = set_calls + 1
  /\ UNCHANGED << pc, DecoderVars, bytes, decoded, subchunks >>

NextStore == GetBlock \/ IndexBlock \/ SetBlock \/ SetBlockNoHeightmapUpdate

SpecStore == InitStore /\ [][NextStore]_vars

\* y * 256 + z * 16 + x
LinearOffset(position) ==
  HeightGetAbsolute(position.y) * 256 + position.z * 16 + position.x

\* C2 (ordering invariant of the store): get_block, set_block,
\* set_block_no_heightmap_update and Index address, for the coordinate
\* (x, y, z), the element at offset y * 256 + z * 16 + x of the block
\* array: a read returns that element and a write leaves its block there;
\* and the offsets of the valid coordinates are pairwise different and
\* fill 0..CHUNK_VOLUME - 1.
C2_OrderingInvariant ==
  /\ op # None =>
       /\ op.offset = LinearOffset(op.position)
       /\ op.block = None =>
            op.returned = ArrayGet(chunk.blocks.blocks, LinearOffset(op.position))
       /\ op.block # None =>
            Some(ArrayGet(chunk.blocks.blocks, LinearOffset(op.position))) = op.block
  /\ op = None =>
       /\ \A c \in ValidCoordinates : convert_index(c) = LinearOffset(c)
       /\ {convert_index(c) : c \in ValidCoordinates} = 0..(CHUNK_VOLUME - 1)
       /\ Cardinality(ValidCoordinates) = CHUNK_VOLUME

\* a block written through set_block at (3, 17, 5) is read back by
\* get_block from offset 17 * 256 + 5 * 16 + 3
C2_Witness ==
  /\ op # None
  /\ op.name = "get_block"
  /\ op.position = [x |-> 3, z |-> 5, y |-> HeightFromAbsolute(17)]
  /\ op.offset = 4435
  /\ op.returned = from_id(65535)

\* the number of elements of a block array
ArrayLen(array) ==
  IF \A r \in DOMAIN array : DOMAIN array[r] = 0..(CHUNK_AREA - 1)
  THEN Cardinality(DOMAIN array) * CHUNK_AREA ELSE -1

\* the block arrays a and b hold the same element at every offset but o
\* (rows other than o's are compared whole)
SameExceptAt(a, b, o) ==
  \A r \in 0..((CHUNK_VOLUME \div CHUNK_AREA) - 1) :
    IF r = o \div CHUNK_AREA
    THEN \A c \in 0..(CHUNK_AREA - 1) :
           r * CHUNK_AREA + c # o =>
             ArrayGet(a, r * CHUNK_AREA + c) = ArrayGet(b, r * CHUNK_AREA + c)
    ELSE a[r] = b[r]

ChunksNext(array, size, n) ==
  IF n * size >= CHUNK_VOLUME THEN None
  ELSE Some(Tuple([i \in 1..(IF (n + 1) * size <= CHUNK_VOLUME THEN size
                            ELSE CHUNK_VOLUME - n * size) |->
                    ArrayGet(array, n * size + i - 1)]))

iter_subchunks_next_overlapping(self, n) ==
  IF n * (SUBCHUNK_VOLUME \div 2) + SUBCHUNK_VOLUME > CHUNK_VOLUME THEN Ok(None)
  ELSE Ok(Some(Tuple([i \in 1..SUBCHUNK_VOLUME |->
                       ArrayGet(self.blocks, n * (SUBCHUNK_VOLUME \div 2) + i - 1)])))

\* next() on the iterator of self.iter_subchunks() that has yielded n
\* items: self.blocks.chunks(SUBCHUNK_VOLUME)
\*          .map(|subchunk| subchunk.try_into().unwrap())
iter_subchunks_next(self, n) ==
  LET window == ChunksNext(self.blocks, SUBCHUNK_VOLUME, n)
  IN IF window = None THEN Ok(None)
     ELSE IF Len(window.value) # SUBCHUNK_VOLUME
     THEN Panic("called Result::unwrap() on an Err value")
     ELSE Ok(window)

\* the stores iterated over: the initial ones and those one set_block call
\* away from them
IterStores ==
  InitialStores
    \cup {set_block(store, position, block).value.self :
            store \in InitialStores, position \in StoreCoordinates, block \in StoreBlocks}

InitIter ==
  /\ pc = "iter"
  /\ DecoderIdle
  /\ \E store \in IterStores : chunk = [blocks |-> store, position |-> Positions[1]]
  /\ op = None
  /\ set_calls = 0
  /\ subchunks = None
  /\ bytes = None
  /\ decoded = None

\* chunk.blocks.iter_subchunks(): a new iterator, nothing yielded yet
IterSubchunks ==
  /\ pc = "iter"
  /\ IF subchunks = None THEN TRUE ELSE subchunks.calls < MaxIterCalls
  /\ subchunks' = [calls |-> IF subchunks = None THEN 1 ELSE subchunks.calls + 1,
                   yielded |-> << >>,
                   done |-> FALSE]
  /\ UNCHANGED << pc, DecoderVars, chunk, op, set_calls, bytes, decoded >>

\* next() on the iterator at hand
IterNext ==
  /\ pc = "iter"
  /\ subchunks # None
  /\ ~subchunks.done
  /\ LET item == iter_subchunks_next(chunk.blocks, Len(subchunks.yielded))
     IN IF item.tag = "Panic"
        THEN /\ pc' = "panic"
             /\ UNCHANGED subchunks
        ELSE /\ subchunks' = IF item.value = None
                             THEN [subchunks EXCEPT !.done = TRUE]
                             ELSE [subchunks EXCEPT !.yielded = Append(@, item.value.value)]
             /\ UNCHANGED pc
  /\ UNCHANGED << DecoderVars, chunk, op, set_calls, bytes, decoded >>

NextIter == IterSubchunks \/ IterNext

SpecIter == InitIter /\ [][NextIter]_vars

\* C17 (iter_subchunks): the k-th item an iterator yields (k from 0) is
\* the 4096 elements at offsets k * 4096 .. (k + 1) * 4096 - 1 of the
\* block array in order, so that the windows follow one another without
\* overlap; the iterator ends after CHUNK_VOLUME / 4096 items, which
\* together cover the array; an iterator from a later call starts again
\* with the first window; and no call or item changes the store.
C17_IterSubchunks ==
  /\ [](/\ pc = "iter"
        /\ subchunks # None =>
             /\ \A k \in 0..(Len(subchunks.yielded) - 1) :
                  /\ Len(subchunks.yielded[k + 1]) = 4096
                  /\ \A i \in 0..4095 :
                       subchunks.yielded[k + 1][i + 1]
                         = ArrayGet(chunk.blocks.blocks, k * 4096 + i)
             /\ Len(subchunks.yielded) * 4096 <= CHUNK_VOLUME
             /\ subchunks.done => Len(subchunks.yielded) * 4096 = CHUNK_VOLUME)
  /\ [][/\ chunk' = chunk
        /\ (subchunks # None /\ subchunks'.calls # subchunks.calls) =>
             subchunks'.yielded = << >>]_vars

\* the second iterator over a store of differing elements, one of them
\* set, has ended: its second item begins with the element at offset 4096
\* and holds the block set at offset 4435
C17_Witness ==
  /\ subchunks # None
  /\ subchunks.calls = 2
  /\ subchunks.done
  /\ Len(subchunks.yielded) = NumSubchunks
  /\ subchunks.yielded[2][1] = from_id((4096 * 7 + 258) % 65536)
  /\ subchunks.yielded[2][1] # subchunks.yielded[1][1]
  /\ subchunks.yielded[2][4435 - 4096 + 1] = from_id(10)

(***************************************************************************)
(* The wire codec: impl Writable / Readable for ChunkData (speedy,         *)
(* LittleEndian).  A buffer is the tuple of its bytes; a reader is the     *)
(* buffer with the number of bytes consumed.                               *)
(***************************************************************************)
\* writer.write_u16(v)
write_u16(v) == << v % 256, v \div 256 >>
\* writer.write_i32(v): two's complement, least significant byte first
write_i32(v) ==
  << v % 256, (v \div 256) % 256, (v \div 65536) % 256, (v \div 16777216) % 256 >>
\* writer.write_u64(v) for a length v (below 2^31)
write_u64(v) == write_u16(v % 65536) \o write_u16(v \div 65536) \o << 0, 0, 0, 0 >>
\* writer.write_i64(word)
write_i64(word) ==
  write_u16(word[1]) \o write_u16(word[2]) \o write_u16(word[3]) \o write_u16(word[4])

\* for block in self.blocks.blocks.iter() { writer.write_u16(block.get_id())? }
WriteBlocks(array) ==
  Tuple([k \in 1..(2 * CHUNK_VOLUME) |->
           write_u16(get_id(ArrayGet(array, (k - 1) \div 2)))[((k - 1) % 2) + 1]])

\* for word in words.iter() { writer.write_i64(*word)? }
WriteWords(words) ==
  IF Len(words) = 0 THEN << >>
  ELSE Tuple([k \in 1..(8 * Len(words)) |->
                write_i64(words[((k - 1) \div 8) + 1])[((k - 1) % 8) + 1]])

write_to_z_first(self) ==
  write_i32(self.position.z)
    \o write_i32(self.position.x)
    \o WriteBlocks(self.blocks.blocks)
    \o write_u64(Len(self.blocks.heightmap.motion_blocking))
    \o WriteWords(self.blocks.heightmap.motion_blocking)
    \o write_u64(Len(self.blocks.heightmap.world_surface))
    \o WriteWords(self.blocks.heightmap.world_surface)

\* impl Writable<LittleEndian> for ChunkData :: write_to, into an empty
\* buffer that grows as needed (no write fails)
write_to(self) ==
  write_i32(self.position.x)
    \o write_i32(self.position.z)
    \o WriteBlocks(self.blocks.blocks)
    \o write_u64(Len(self.blocks.heightmap.motion_blocking))
    \o WriteWords(self.blocks.heightmap.motion_blocking)
    \o write_u64(Len(self.blocks.heightmap.world_surface))
    \o WriteWords(self.blocks.heightmap.world_surface)

\* the error of a read past the end of the buffer
EndOfInput == Err("unexpected end of input")

\* reader.read_u16() at pos: the value and the position after it
read_u16(buf, pos) ==
  IF pos + 2 > Len(buf) THEN EndOfInput
  ELSE Ok([value |-> buf[pos + 1] + 256 * buf[pos + 2], pos |-> pos + 2])

\* reader.read_i32()
read_i32(buf, pos) ==
  IF pos + 4 > Len(buf) THEN EndOfInput
  ELSE Ok([value |-> buf[pos + 1] + 256 * buf[pos + 2] + 65536 * buf[pos + 3]
                       + 16777216 * (IF buf[pos + 4] >= 128 THEN buf[pos + 4] - 256
                                     ELSE buf[pos + 4]),
           pos |-> pos + 4])

\* reader.read_u64() and reader.read_i64(): the eight bytes as four limbs
read_64(buf, pos) ==
  IF pos + 8 > Len(buf) THEN EndOfInput
  ELSE Ok([value |-> << buf[pos + 1] + 256 * buf[pos + 2], buf[pos + 3] + 256 * buf[pos + 4],
                        buf[pos + 5] + 256 * buf[pos + 6], buf[pos + 7] + 256 * buf[pos + 8] >>,
           pos |-> pos + 8])

\* Vec::<i64>::with_capacity(len): a request past isize::MAX bytes panics
\* (a request the allocator refuses is left out: no length read here is
\* that large)
with_capacity(len) ==
  IF len[4] >= 4096 THEN Panic("capacity overflow") ELSE Ok(<< >>)

\* for _ in 0..CHUNK_VOLUME { blocks.push(BlockId::from_id(reader.read_u16()?)) }
ReadBlocks(buf, pos) ==
  IF pos + 2 * CHUNK_VOLUME > Len(buf) THEN EndOfInput
  ELSE Ok([value |-> [r \in 0..(NumRows - 1) |-> [c \in 0..(CHUNK_AREA - 1) |->
                       from_id(read_u16(buf, pos + 2 * (r * CHUNK_AREA + c)).value.value)]],
           pos |-> pos + 2 * CHUNK_VOLUME])

\* for _ in 0..count { vec.push(reader.read_i64()?) }: the outcome, and how
\* many words were read before the loop ended
ReadWords(buf, pos, count) ==
  LET available == (Len(buf) - pos) \div 8
  IN IF available < count
     THEN [outcome |-> EndOfInput, read |-> available]
     ELSE [outcome |-> Ok([value |-> IF count = 0 THEN << >>
                                     ELSE Tuple([i \in 1..count |->
                                            read_64(buf, pos + 8 * (i - 1)).value.value]),
                           pos |-> pos + 8 * count]),
           read |-> count]

\* one heightmap of read_from: let len = reader.read_u64()? as usize;
\* let mut v = Vec::with_capacity(len); for _ in 0..CHUNK_VOLUME { .. }
\* gives [outcome, len, words]: the vector and the position after it or
\* the failure, the length read and the number of words read
ReadHeightmap(buf, pos) ==
  LET len == read_64(buf, pos)
  IN IF len.tag = "Err" THEN [outcome |-> len, len |-> None, words |-> 0]
     ELSE IF with_capacity(len.value.value).tag = "Panic"
     THEN [outcome |-> with_capacity(len.value.value), len |-> Some(len.value.value),
           words |-> 0]
     ELSE LET loop == ReadWords(buf, len.value.pos, CHUNK_VOLUME)
          IN [outcome |-> loop.outcome, len |-> Some(len.value.value), words |-> loop.read]

\* impl Readable<LittleEndian> for ChunkData :: read_from on a reader at
\* the start of buf: [result, motion, surface] with the ChunkData or the
\* failure, and what the two heightmap reads did (None: not reached)
read_from(buf) ==
  LET x == read_i32(buf, 0)
      z == read_i32(buf, x.value.pos)
      ids == ReadBlocks(buf, z.value.pos)
      motion == ReadHeightmap(buf, ids.value.pos)
      surface == ReadHeightmap(buf, motion.outcome.value.pos)
  IN IF x.tag = "Err" THEN [result |-> x, motion |-> None, surface |-> None]
     ELSE IF z.tag = "Err" THEN [result |-> z, motion |-> None, surface |-> None]
     ELSE IF ids.tag = "Err" THEN [result |-> ids, motion |-> None, surface |-> None]
     ELSE IF motion.outcome.tag # "Ok"
     THEN [result |-> motion.outcome,
           motion |-> Some([len |-> motion.len, words |-> motion.words]),
           surface |-> None]
     ELSE IF surface.outcome.tag # "Ok"
     THEN [result |-> surface.outcome,
           motion |-> Some([len |-> motion.len, words |-> motion.words]),
           surface |-> Some([len |-> surface.len, words |-> surface.words])]
     ELSE [result |-> Ok([blocks |-> [blocks |-> ids.value.value,
                                      heightmap |->
                                        [motion_blocking |-> motion.outcome.value.value,
                                         world_surface |-> surface.outcome.value.value]],
                          position |-> [x |-> x.value.value, z |-> z.value.value]]),
           motion |-> Some([len |-> motion.len, words |-> motion.words]),
           surface |-> Some([len |-> surface.len, words |-> surface.words])]

\* the chunks handed to the codec
WirePositions ==
  {Positions[1], Positions[2], [x |-> 2147483647, z |-> (-2147483647) - 1]}
WireBlockArrays ==
  {ArrayFilled(BlockIdDefault),
   [r \in 0..(NumRows - 1) |-> [c \in 0..(CHUNK_AREA - 1) |->
      from_id(((r * CHUNK_AREA + c) * 7 + 258) % 65536)]]}
Words(n, salt) ==
  IF n = 0 THEN << >>
  ELSE Tuple([i \in 1..n |->
         << (i * 257 + salt) % 65536, i % 65536, 65535 - (i % 65536),
            (32768 * salt + i) % 65536 >>])
HeightmapLengths == {0, 1, 37}
WireHeightmaps ==
  {[motion_blocking |-> Words(m, 1), world_surface |-> Words(s, 2)] :
     m \in HeightmapLengths, s \in HeightmapLengths}
    \cup {ChunkHeightmapsDefault,
          [motion_blocking |-> Words(CHUNK_VOLUME, 1),
           world_surface |-> Words(CHUNK_VOLUME, 2)]}
WireChunks ==
  {[blocks |-> [blocks |-> b, heightmap |-> h], position |-> p] :
     b \in WireBlockArrays, h \in WireHeightmaps, p \in WirePositions}

InitWire ==
  /\ pc = "wire"
  /\ DecoderIdle
  /\ chunk \in WireChunks
  /\ op = None
  /\ set_calls = 0
  /\ subchunks = None
  /\ bytes = None
  /\ decoded = None

\* chunk.write_to(&mut writer) on an empty buffer
WriteTo ==
  /\ pc = "wire"
  /\ bytes = None
  /\ bytes' = Some(write_to(chunk))
  /\ UNCHANGED << pc, DecoderVars, chunk, op, set_calls, decoded, subchunks >>

\* ChunkData::read_from(&mut reader) on the bytes written
ReadFrom ==
  /\ pc = "wire"
  /\ bytes # None
  /\ decoded = None
  /\ decoded' = read_from(bytes.value)
  /\ UNCHANGED << pc, DecoderVars, chunk, op, set_calls, bytes, subchunks >>

NextWire == WriteTo \/ ReadFrom

SpecWire == InitWire /\ [][NextWire]_vars

(***************************************************************************)
(* Properties of the wire codec, checked under SpecWire.                   *)
(***************************************************************************)
\* C1 (wire codec round trip): reading the bytes write_to wrote for a chunk
\* succeeds and gives a ChunkData with the same position, the same block
\* array and the same heightmaps.
C1_RoundTrip ==
  decoded # None => decoded.result = Ok(chunk)

\* a length as the u64 the reader gets
U64(v) == << v % 65536, v \div 65536, 0, 0 >>

\* C8 (wire decode honours the heightmap length prefix): for each heightmap
\* the reader got to, the length it read is the length written, it read
\* that many words, and a successful decode gives heightmaps of those
\* lengths.
C8_HonoursLengthPrefix ==
  decoded # None =>
    /\ decoded.motion # None =>
         /\ decoded.motion.value.len = Some(U64(Len(chunk.blocks.heightmap.motion_blocking)))
         /\ U64(decoded.motion.value.words) = decoded.motion.value.len.value
    /\ decoded.surface # None =>
         /\ decoded.surface.value.len = Some(U64(Len(chunk.blocks.heightmap.world_surface)))
         /\ U64(decoded.surface.value.words) = decoded.surface.value.len.value
    /\ decoded.result.tag = "Ok" =>
         /\ U64(Len(decoded.result.value.blocks.heightmap.motion_blocking))
              = decoded.motion.value.len.value
         /\ U64(Len(decoded.result.value.blocks.heightmap.world_surface))
              = decoded.surface.value.len.value

\* the number the n bytes after the first `from` bytes of buf spell, least
\* significant first (n <= 3)
Unsigned(buf, from, n) ==
  IF n = 0 THEN 0
  ELSE buf[from + 1] + (IF n = 1 THEN 0
       ELSE 256 * buf[from + 2] + (IF n = 2 THEN 0 ELSE 65536 * buf[from + 3]))

\* the four bytes after the first `from` of buf spell the signed 32-bit v
\* in two's complement
IsI32(buf, from, v) ==
  Unsigned(buf, from, 3)
    + 16777216 * (IF buf[from + 4] >= 128 THEN buf[from + 4] - 256 ELSE buf[from + 4]) = v

\* the eight bytes after the first `from` of buf are the element count v
IsLength(buf, from, v) ==
  /\ Unsigned(buf, from, 3) + 16777216 * buf[from + 4] = v
  /\ \A k \in 4..7 : buf[from + 1 + k] = 0

\* the bytes after the first `from` of buf are the words, eight bytes
\* each, byte k of a word being its bits 8k .. 8k + 7
AreWords(buf, from, words) ==
  \A j \in 1..Len(words) : \A k \in 0..7 :
    buf[from + 8 * (j - 1) + k + 1] = FieldOf(words[j], 8 * k, 8)

\* the coordinate whose block the store keeps at offset i
CoordinateAt(i) ==
  [x |-> i % 16, z |-> (i \div 16) % 16, y |-> HeightFromAbsolute(i \div 256)]

\* C9 (wire encode layout): the bytes written are the position's x and z
\* as signed 32-bit numbers, then for i = 0 .. CHUNK_VOLUME - 1 the
\* 16-bit id of the block the store has at offset i (y-major), then the
\* motion-blocking heightmap's element count and its words, then the
\* world-surface heightmap's, and nothing more; the chunk is left as it
\* was.
C9_EncodeLayout ==
  /\ [](bytes # None =>
          LET buf == bytes.value
              motion == chunk.blocks.heightmap.motion_blocking
              surface == chunk.blocks.heightmap.world_surface
              ids == 8 + 2 * CHUNK_VOLUME
          IN /\ Len(buf) = ids + 8 + 8 * Len(motion) + 8 + 8 * Len(surface)
             /\ \A k \in 1..Len(buf) : buf[k] \in 0..255
             /\ IsI32(buf, 0, chunk.position.x)
             /\ IsI32(buf, 4, chunk.position.z)
             /\ \A i \in 0..(CHUNK_VOLUME - 1) :
                  Unsigned(buf, 8 + 2 * i, 2)
                    = get_id(get_block(chunk.blocks, CoordinateAt(i)).value.value)
             /\ IsLength(buf, ids, Len(motion))
             /\ AreWords(buf, ids + 8, motion)
             /\ IsLength(buf, ids + 8 + 8 * Len(motion), Len(surface))
             /\ AreWords(buf, ids + 8 + 8 * Len(motion) + 8, surface))
  /\ [][bytes' # bytes => chunk' = chunk]_vars

\* a chunk at a negative x with differing block ids and heightmaps of 37
\* and 1 words has been written
C9_Witness ==
  /\ bytes # None
  /\ chunk.position = Positions[2]
  /\ ArrayGet(chunk.blocks.blocks, 1) # ArrayGet(chunk.blocks.blocks, 0)
  /\ Len(chunk.blocks.heightmap.motion_blocking) = 37
  /\ Len(chunk.blocks.heightmap.world_surface) = 1
  /\ Len(bytes.value) = 8 + 2 * CHUNK_VOLUME + 8 + 8 * 37 + 8 + 8

(***************************************************************************)
(* Further properties of from_bytes, checked under SpecDecode.             *)
(***************************************************************************)
\* the section carries a packed array
HasData(kind) ==
  /\ HasBlockStates(kind)
  /\ Section(kind).block_states.value.data # None

\* C12 (cursor-to-offset identity): block_index is 0 until the first
\* section, each section starts from the value the previous one left, and
\* the k-th block a section writes (k from 0) goes to the coordinates
\* x = c mod 16, z = (c mod 256) / 16, y = c / 256 of the cursor value
\* c = start + k, that is to array offset c, whatever the section's Y
\* field; unpacking leaves the cursor at start plus the number of blocks
\* written.
C12_CursorOffsetIdentity ==
  /\ [](/\ taken = 0 => block_index = 0
        /\ taken = 1 => start = 0
        /\ \A k \in 0..(Len(writes) - 1) :
             LET c == start + k
             IN /\ writes[k + 1] = c
                /\ c = LinearOffset([x |-> c % 16, z |-> (c % 256) \div 16,
                                     y |-> HeightFromAbsolute(c \div 256)])
        /\ HasData(section) => block_index = start + Len(writes))
  /\ [][taken' # taken => start' = block_index]_vars

\* the section declaring Y = 0 came second and filled offsets 4096 up
C12_Witness ==
  /\ section = "seventeen"
  /\ Section("seventeen").y = 0
  /\ taken = 2
  /\ start = SUBCHUNK_VOLUME
  /\ Len(writes) = SUBCHUNK_VOLUME
  /\ writes[1] = SUBCHUNK_VOLUME
  /\ block_index = 2 * SUBCHUNK_VOLUME

\* the section carries a block-state block without a packed array
PaletteOnly(kind) ==
  /\ HasBlockStates(kind)
  /\ Section(kind).block_states.value.data = None

\* C13 (a section without packed array advances the cursor): once the
\* loop has gone past a section with a block-state block and no packed
\* array, block_index is SUBCHUNK_VOLUME above where the section started
\* and the section wrote nothing; the first block the next section writes
\* lands SUBCHUNK_VOLUME positions after that start.
C13_PaletteOnlyAdvances ==
  /\ []((pc = "sections" /\ PaletteOnly(section)) =>
          /\ block_index = start + SUBCHUNK_VOLUME
          /\ writes = << >>)
  /\ [][(pc = "sections" /\ PaletteOnly(section) /\ taken' # taken
           /\ Len(writes') > 0) =>
          writes'[1] = start + SUBCHUNK_VOLUME]_vars

\* a first section that moved the cursor to 4096 and wrote nothing (offset
\* 1 would hold stone after a section with a packed array), then
\* a section whose first block went to offset 4096
C13_Witness ==
  /\ taken = 2
  /\ start = SUBCHUNK_VOLUME
  /\ section = "air_stone"
  /\ Len(writes) = SUBCHUNK_VOLUME
  /\ writes[1] = SUBCHUNK_VOLUME
  /\ ArrayGet(blocks.blocks, 1) = BlockIdDefault

\* C14 (a section without packed array is a uniformly filled subchunk):
\* once the loop has gone past a section with a block-state block and no
\* packed array, the SUBCHUNK_VOLUME positions from where the section
\* started all hold the id of the palette's first entry.
C14_PaletteOnlyFills ==
  (pc = "sections" /\ PaletteOnly(section)) =>
    \A o \in start..(start + SUBCHUNK_VOLUME - 1) :
      o < CHUNK_VOLUME => ArrayGet(blocks.blocks, o) = PaletteId(section, 0)

\* the section carries no block-state block
NoBlockStates(kind) == kind # "none" /\ Section(kind).block_states = None

C16_HeightmapPassThrough ==
  /\ blocks # None => blocks.heightmap = nbt.value.heightmaps
  /\ chunk # None =>
       /\ result = Ok("ChunkData")
       /\ chunk.blocks.heightmap = nbt.value.heightmaps
       /\ chunk.position = at

\* a chunk at (-3, 7) whose source carried non-default height arrays was
\* returned after two sections wrote 2 * 4096 blocks
C16_Witness ==
  /\ chunk # None
  /\ taken = 2
  /\ block_index = 2 * SUBCHUNK_VOLUME
  /\ Len(writes) = SUBCHUNK_VOLUME
  /\ chunk.position = Positions[2]
  /\ chunk.blocks.heightmap = SourceHeightmaps[2]
  /\ chunk.blocks.heightmap # ChunkHeightmapsDefault

\* C18 (section alignment): when the loop has finished a section that
\* carries a packed array, that section has written exactly 4096 blocks
\* and block_index is a multiple of 4096, whatever the array's length.
C18_SectionAlignment ==
  (pc = "sections" /\ HasData(section)) =>
    /\ block_index % 4096 = 0
    /\ Len(writes) = 4096

\* C20 (palette lookups stay in range): for the section the loop has
\* just unpacked, whatever its palette, the field width is below 64, every
\* field extracted (those of the blocks written and, when the loop was
\* left in a lookup, the one looked up last) is below the palette's
\* length, and from_bytes has not panicked.
C20_PaletteLookupsInRange ==
  (HasData(section) /\ result.tag # "Err") =>
    LET n == Len(Section(section).block_states.value.palette)
        data == Section(section).block_states.value.data.value
        w == block_bit_size(n)
        per == 64 \div w
        extracted == IF pc = "sections" THEN Len(writes) ELSE Len(writes) + 1
    IN /\ w < 64
       /\ \A k \in 0..(extracted - 1) :
            FieldOf(data[(k \div per) + 1], (k % per) * w, w) < n
       /\ result.tag # "Panic"

(***************************************************************************)
(* Properties of from_bytes on source data of many sections, checked under *)
(* SpecDecodeMany.                                                         *)
(***************************************************************************)
\* C19 (writes stay in bounds): block_index never exceeds CHUNK_VOLUME,
\* every block written goes to an offset in 0 .. CHUNK_VOLUME - 1, and
\* from_bytes never panics on an array index, whatever sections the source
\* data holds.
C19_WritesStayInBounds ==
  /\ block_index <= CHUNK_VOLUME
  /\ \A k \in 1..Len(writes) : writes[k] \in 0..(CHUNK_VOLUME - 1)
  /\ result # Panic("index out of bounds")

=============================================================================
